---- MODULE Spec2Model ----
(***************************************************************************)
(* A model of hb (wrenix/hb): the HomeBank transaction record parser       *)
(* (Transaction::try_from), the transaction date filter of main, the       *)
(* budget aggregation query (QueryBudget::exec) with its default date      *)
(* window, and the name lookups of a transaction in the store.             *)
(*                                                                         *)
(* Conventions.                                                            *)
(*   - A Rust String is a sequence of one-character strings, so that       *)
(*     parsing, splitting, ordering and pattern matching are computed.     *)
(*   - Option<T>: None is <<>>, Some(x) is <<x>>.                          *)
(*   - A NaiveDate is a record [y, m, d]; the order is chronological.      *)
(*   - An f32 amount is an integer: every amount of the model is a whole   *)
(*     number far below 2^24, where f32 arithmetic is exact.               *)
(***************************************************************************)
EXTENDS Integers, Sequences, FiniteSets, TLC

VARIABLES
    input,              \* the Vec<OwnedAttribute> handed to Transaction::try_from
    result,             \* what Transaction::try_from returned for it
    accounts,           \* HomeBankDb: id -> Account (its name)
    payees,             \* HomeBankDb: id -> Payee (its name)
    categories,         \* HomeBankDb: id -> Category
    transactions,       \* HomeBankDb: the transactions, in file order
    query,              \* the QueryTransactions of the last run of main
    filt_transactions,  \* main: the filtered transactions (indices into the store)
    prev_query,         \* the query of the run of main before the last one
    prev_filt,          \* ... and its result
    budget_query,       \* the QueryBudget last executed
    filt_categories,    \* QueryBudget::exec: the selected categories, sorted
    budget_spent,       \* QueryBudget::exec: the rows returned
    names,              \* the names resolved for the store's first transaction
    today               \* the day the process runs on (Local::today)

vars == <<input, result, accounts, payees, categories, transactions, query,
          filt_transactions, prev_query, prev_filt, budget_query,
          filt_categories, budget_spent, names, today>>

(***************************************************************************)
(* Bounds                                                                  *)
(***************************************************************************)
\* Longest attribute list handed to Transaction::try_from.
MaxAttrs == 3

----------------------------------------------------------------------------
(***************************************************************************)
(* Option and strings                                                      *)
(***************************************************************************)
None == <<>>

Some(x) == <<x>>

IsSome(o) == o # <<>>

Unwrap(o) == o[1]

\* The characters the model uses, in ascending byte order.
AsciiOrder == <<"+", ",", "-", ".", "0", "1", "2", "3", "4", "5", "6", "7", "8", "9",
                "A", "B", "G", "a", "c", "e", "i", "l", "o", "r", "s", "t", "u", "x">>

Code(c) == CHOOSE i \in 1..Len(AsciiOrder) : AsciiOrder[i] = c

DigitChars == <<"0", "1", "2", "3", "4", "5", "6", "7", "8", "9">>

IsDigit(c) == \E i \in 1..Len(DigitChars) : DigitChars[i] = c

DigitVal(c) == (CHOOSE i \in 1..Len(DigitChars) : DigitChars[i] = c) - 1

AllDigits(s) == s # <<>> /\ \A i \in 1..Len(s) : IsDigit(s[i])

RECURSIVE DigitsValue(_)
DigitsValue(s) ==
    IF s = <<>> THEN 0
    ELSE DigitsValue(SubSeq(s, 1, Len(s) - 1)) * 10 + DigitVal(s[Len(s)])

\* usize::from_str / u32::from_str: an optional '+', then one or more digits.
\* Every numeric string of the model is short, so no value overflows.
ParseUnsigned(s) ==
    LET body == IF s # <<>> /\ Head(s) = "+" THEN Tail(s) ELSE s
    IN  IF AllDigits(body) THEN Some(DigitsValue(body)) ELSE None

\* f32::from_str on the strings of the model: an optional sign, then digits.
ParseF32(s) ==
    LET signed == s # <<>> /\ Head(s) \in {"+", "-"}
        body   == IF signed THEN Tail(s) ELSE s
    IN  IF ~AllDigits(body) THEN None
        ELSE IF signed /\ Head(s) = "-" THEN Some(0 - DigitsValue(body))
        ELSE Some(DigitsValue(body))

----------------------------------------------------------------------------
(***************************************************************************)
(* Dates                                                                   *)
(***************************************************************************)
Ymd(y, m, d) == [y |-> y, m |-> m, d |-> d]

\* NaiveDate's derived order.
DateLt(a, b) ==
    \/ a.y < b.y
    \/ a.y = b.y /\ a.m < b.m
    \/ a.y = b.y /\ a.m = b.m /\ a.d < b.d

DateLe(a, b) == a = b \/ DateLt(a, b)

\* The proleptic Gregorian date z days after 0000-03-01.
CivilFromDays(z) ==
    LET era  == z \div 146097
        doe  == z - era * 146097
        yoe  == (doe - doe \div 1460 + doe \div 36524 - doe \div 146096) \div 365
        doy  == doe - (365 * yoe + yoe \div 4 - yoe \div 100)
        mp   == (5 * doy + 2) \div 153
        dd   == doy - (153 * mp + 2) \div 5 + 1
        mm   == IF mp < 10 THEN mp + 3 ELSE mp - 9
        yy   == yoe + era * 400 + (IF mm <= 2 THEN 1 ELSE 0)
    IN  Ymd(yy, mm, dd)

\* The day count taken as days since 0001-01-01, the day 1 of the Common
\* Era.
JulianDateFromCommonEra(n) == CivilFromDays(n + 305)

\* NaiveDate::from_ymd(0, 1, 1) + Duration::days(d): 0000-01-01 is 60 days
\* before 0000-03-01.
JulianDateFromU32(n) == CivilFromDays(n - 60)

IsLeapYear(y) == (y % 4 = 0 /\ y % 100 # 0) \/ y % 400 = 0

DaysInMonth(y, m) ==
    CASE m \in {4, 6, 9, 11} -> 30
      [] m = 2 -> IF IsLeapYear(y) THEN 29 ELSE 28
      [] OTHER -> 31

----------------------------------------------------------------------------
(***************************************************************************)
(* Transaction::try_from                                                   *)
(***************************************************************************)
Attr(name, value) == [name |-> name, value |-> value]

Ok(v) == [ok |-> TRUE, val |-> v]

Err(e) == [ok |-> FALSE, err |-> e]

\* PayMode::try_from(usize): the codes 0..10.
PayModeTryFrom(pm) ==
    IF pm <= 10 THEN Ok(pm) ELSE Err("InvalidPayMode")

\* TransactionStatus::try_from(usize): the codes 0..4.
TransactionStatusTryFrom(st) ==
    IF st <= 4 THEN Ok(st) ELSE Err("InvalidStatus")

TransactionDefault ==
    [ date             |-> Ymd(2000, 1, 1),
      amount           |-> 0,
      account          |-> 0,
      pay_mode         |-> 0,
      status           |-> 0,
      flags            |-> None,
      payee            |-> None,
      category         |-> None,
      memo             |-> None,
      info             |-> None,
      tags             |-> None,
      transaction_type |-> "Expense" ]

\* str::split(','): the pieces between the commas, left to right.
RECURSIVE SplitComma(_)
SplitComma(s) ==
    IF \A i \in 1..Len(s) : s[i] # ","
    THEN <<s>>
    ELSE LET k == CHOOSE i \in 1..Len(s) :
                      s[i] = "," /\ \A j \in 1..(i - 1) : s[j] # ","
         IN  <<SubSeq(s, 1, k - 1)>> \o SplitComma(SubSeq(s, k + 1, Len(s)))

\* AmountArm with the comparison a >= 0.0.
AmountArmZeroIncome(tr, value) ==
    LET a == ParseF32(value)
    IN  IF ~IsSome(a) THEN Err("MissingAmount")
        ELSE LET t1 == [tr EXCEPT !.amount = Unwrap(a)]
             IN  IF t1.transaction_type # "Transfer"
                 THEN IF Unwrap(a) >= 0
                      THEN Ok([t1 EXCEPT !.transaction_type = "Income"])
                      ELSE Ok([t1 EXCEPT !.transaction_type = "Expense"])
                 ELSE Ok(t1)

\* The "amount" arm: the type follows the sign unless it is already Transfer.
AmountArm(tr, value) ==
    LET a == ParseF32(value)
    IN  IF ~IsSome(a) THEN Err("MissingAmount")
        ELSE LET t1 == [tr EXCEPT !.amount = Unwrap(a)]
             IN  IF t1.transaction_type # "Transfer"
                 THEN IF Unwrap(a) > 0
                      THEN Ok([t1 EXCEPT !.transaction_type = "Income"])
                      ELSE Ok([t1 EXCEPT !.transaction_type = "Expense"])
                 ELSE Ok(t1)

\* The arm of the name "account".
AccountArmResets(tr, value) ==
    LET p == ParseUnsigned(value)
    IN  IF IsSome(p) THEN Ok([TransactionDefault EXCEPT !.account = Unwrap(p)])
        ELSE Err("MissingAccount")

AccountArm(tr, value) ==
    LET p == ParseUnsigned(value)
    IN  IF IsSome(p) THEN Ok([tr EXCEPT !.account = Unwrap(p)])
        ELSE Err("MissingAccount")

\* The arm of the name "category": a value that does not parse leaves None.
CategoryArmStrict(tr, value) ==
    LET p == ParseUnsigned(value)
    IN  IF IsSome(p) THEN Ok([tr EXCEPT !.category = p])
        ELSE Err("MissingCategory")

CategoryArm(tr, value) ==
    Ok([tr EXCEPT !.category = ParseUnsigned(value)])

\* The arm of the name "paymode".
PayModeArmUnparsableInvalid(tr, value) ==
    LET p == ParseUnsigned(value)
    IN  IF ~IsSome(p) THEN Err("InvalidPayMode")
        ELSE LET pm == PayModeTryFrom(Unwrap(p))
             IN  IF pm.ok THEN Ok([tr EXCEPT !.pay_mode = pm.val]) ELSE pm

PayModeArm(tr, value) ==
    LET p == ParseUnsigned(value)
    IN  IF ~IsSome(p) THEN Err("MissingPayMode")
        ELSE LET pm == PayModeTryFrom(Unwrap(p))
             IN  IF pm.ok THEN Ok([tr EXCEPT !.pay_mode = pm.val]) ELSE pm

\* The arms of "scat", "samt", "smem" and of every other name.
UnknownArmRejects(tr, a) == Err("InvalidStatus")

UnknownArm(tr, a) == Ok(tr)

\* One iteration of the loop over the attributes: the match on the name.
TryFromArm(tr, a) ==
    CASE a.name = "account" -> AccountArm(tr, a.value)
      [] a.name = "amount" -> AmountArm(tr, a.value)
      [] a.name = "category" -> CategoryArm(tr, a.value)
      [] a.name = "date" ->
            LET p == ParseUnsigned(a.value)
            IN  IF IsSome(p) THEN Ok([tr EXCEPT !.date = JulianDateFromU32(Unwrap(p))])
                ELSE Err("MissingDate")
      [] a.name = "paymode" -> PayModeArm(tr, a.value)
      [] a.name = "status" ->
            LET p == ParseUnsigned(a.value)
            IN  IF ~IsSome(p) THEN Ok([tr EXCEPT !.status = 0])
                ELSE LET st == TransactionStatusTryFrom(Unwrap(p))
                     IN  IF st.ok THEN Ok([tr EXCEPT !.status = st.val]) ELSE st
      [] a.name = "flags" ->
            Ok([tr EXCEPT !.flags = ParseUnsigned(a.value)])
      [] a.name = "payee" ->
            LET p == ParseUnsigned(a.value)
            IN  IF IsSome(p) THEN Ok([tr EXCEPT !.payee = p])
                ELSE Err("MissingPayee")
      [] a.name = "wording" ->
            Ok([tr EXCEPT !.memo = IF a.value = <<>> THEN None ELSE Some(a.value)])
      [] a.name = "tags" ->
            Ok([tr EXCEPT !.tags = Some(SplitComma(a.value))])
      [] OTHER -> UnknownArm(tr, a)

\* The loop: the first failing attribute ends it with its error.
RECURSIVE TryFromLoop(_, _)
TryFromLoop(tr, v) ==
    IF v = <<>> THEN Ok(tr)
    ELSE LET r == TryFromArm(tr, Head(v))
         IN  IF r.ok THEN TryFromLoop(r.val, Tail(v)) ELSE r

\* try_from with a check, ahead of the loop, that the account, the amount
\* and the date are among the attributes.
TransactionTryFromRequiring(v) ==
    LET has(name) == \E i \in 1..Len(v) : v[i].name = name
    IN  IF ~has("account") THEN Err("MissingAccount")
        ELSE IF ~has("amount") THEN Err("MissingAmount")
        ELSE IF ~has("date") THEN Err("MissingDate")
        ELSE TryFromLoop(TransactionDefault, v)

TransactionTryFrom(v) == TryFromLoop(TransactionDefault, v)

----------------------------------------------------------------------------
(***************************************************************************)
(* HomeBankDb: categories and cross-reference resolution                   *)
(***************************************************************************)
\* The separator between a parent's full name and a category's own name.
Separator == <<".">>

\* A category's budget: the flat monthly amount and the amounts set for
\* single months (1..12), each optional.
NoBudget == [flat |-> None, monthly |-> [m \in 1..12 |-> None]]

FlatBudget(amount) == [flat |-> Some(amount), monthly |-> [m \in 1..12 |-> None]]

Category(name, parent, budget) == [name |-> name, parent |-> parent, budget |-> budget]

\* Category::full_name: the parent's full name, the separator, the own name.
RECURSIVE FullName(_, _)
FullName(cats, id) ==
    LET cat == cats[id]
    IN  IF IsSome(cat.parent) /\ Unwrap(cat.parent) \in DOMAIN cats
        THEN FullName(cats, Unwrap(cat.parent)) \o Separator \o cat.name
        ELSE cat.name

\* Category::has_budget: some allotment, flat or of a month, is set.
HasBudget(cat) ==
    \/ IsSome(cat.budget.flat)
    \/ \E m \in 1..12 : IsSome(cat.budget.monthly[m])

\* CategoryName with the category's own name.
CategoryOwnName(cats, t) ==
    IF IsSome(t.category)
    THEN IF Unwrap(t.category) \in DOMAIN cats
         THEN Some(cats[Unwrap(t.category)].name)
         ELSE None
    ELSE None

\* Transaction::category_name
CategoryName(cats, t) ==
    IF IsSome(t.category)
    THEN IF Unwrap(t.category) \in DOMAIN cats
         THEN Some(FullName(cats, Unwrap(t.category)))
         ELSE None
    ELSE None

\* PayeeName with the lookup made in the accounts.
PayeeNameFromAccounts(db, t) ==
    IF IsSome(t.payee)
    THEN IF Unwrap(t.payee) \in DOMAIN db.accounts
         THEN Some(db.accounts[Unwrap(t.payee)])
         ELSE None
    ELSE None

\* Transaction::account_name
AccountName(db, t) ==
    IF t.account \in DOMAIN db.accounts
    THEN Some(db.accounts[t.account])
    ELSE None

\* Transaction::payee_name
PayeeName(db, t) ==
    IF IsSome(t.payee)
    THEN IF Unwrap(t.payee) \in DOMAIN db.payees
         THEN Some(db.payees[Unwrap(t.payee)])
         ELSE None
    ELSE None

(***************************************************************************)
(* Strings: order and pattern matching                                     *)
(***************************************************************************)
\* String's Ord: lexicographic on the bytes, a proper prefix first.
RECURSIVE StrLt(_, _)
StrLt(a, b) ==
    IF b = <<>> THEN FALSE
    ELSE IF a = <<>> THEN TRUE
    ELSE IF Code(Head(a)) # Code(Head(b)) THEN Code(Head(a)) < Code(Head(b))
    ELSE StrLt(Tail(a), Tail(b))

StrLe(a, b) == a = b \/ StrLt(a, b)

\* Regex::is_match for a pattern of literal characters and '.', which
\* matches any character: the pattern matches somewhere in the text.
MatchesAt(pat, text, k) ==
    /\ k + Len(pat) - 1 <= Len(text)
    /\ \A i \in 1..Len(pat) : pat[i] = "." \/ pat[i] = text[k + i - 1]

IsMatch(pat, text) == \E k \in 1..(Len(text) + 1) : MatchesAt(pat, text, k)

(***************************************************************************)
(* main: the transaction query                                             *)
(***************************************************************************)
\* QueryTransactions::new, with the filters the model uses.
QueryTransactionsNew(date_from, date_to, category) ==
    [date_from |-> date_from, date_to |-> date_to, category |-> category]

\* Iterator::filter(..).collect(): the places, from i on and in order, of
\* the elements the predicate keeps; keep[i] is the predicate's value on the
\* i-th element.
RECURSIVE FilterIdx(_, _)
FilterIdx(keep, i) ==
    IF i > Len(keep) THEN <<>>
    ELSE (IF keep[i] THEN <<i>> ELSE <<>>) \o FilterIdx(keep, i + 1)

\* main's first filter: dates before the given date are dropped.
PassesDateFrom(q, t) ==
    IF IsSome(q.date_from) THEN DateLe(Unwrap(q.date_from), t.date) ELSE TRUE

\* PassesDateTo with the comparison t.date() <= d.
PassesDateToInclusive(q, t) ==
    IF IsSome(q.date_to) THEN DateLe(t.date, Unwrap(q.date_to)) ELSE TRUE

\* main's second filter: dates on or after the given date are dropped.
PassesDateTo(q, t) ==
    IF IsSome(q.date_to) THEN DateLt(t.date, Unwrap(q.date_to)) ELSE TRUE

\* MainFilter keeping a transaction that passes either filter.
MainFilterAnyOf(txs, q) ==
    LET Keep(i) == \/ ~IsSome(q.date_from) /\ ~IsSome(q.date_to)
                   \/ IsSome(q.date_from) /\ PassesDateFrom(q, txs[i])
                   \/ IsSome(q.date_to) /\ PassesDateTo(q, txs[i])
    IN  FilterIdx([i \in 1..Len(txs) |-> Keep(i)], 1)

\* MainFilter iterating the transactions from the last to the first.
MainFilterReversed(txs, q) ==
    LET Keep(i) == PassesDateFrom(q, txs[i]) /\ PassesDateTo(q, txs[i])
        kept    == FilterIdx([i \in 1..Len(txs) |-> Keep(i)], 1)
    IN  [i \in 1..Len(kept) |-> kept[Len(kept) + 1 - i]]

\* main: db.transactions().iter().filter(..).filter(..).collect()
MainFilter(txs, q) ==
    LET Keep(i) == PassesDateFrom(q, txs[i]) /\ PassesDateTo(q, txs[i])
    IN  FilterIdx([i \in 1..Len(txs) |-> Keep(i)], 1)

(***************************************************************************)
(* QueryTransactions::exec, sum_transactions and the budget allotment      *)
(***************************************************************************)
\* The category filter: the pattern is matched against the resolved full
\* name; a transaction with no resolvable category does not pass.
PassesCategory(cats, q, t) ==
    IF IsSome(q.category)
    THEN LET name == CategoryName(cats, t)
         IN  IsSome(name) /\ IsMatch(Unwrap(q.category), Unwrap(name))
    ELSE TRUE

\* QueryTransactions::exec: every supplied filter must pass; file order.
QueryTransactionsExec(cats, txs, q) ==
    LET Keep(i) == /\ PassesDateFrom(q, txs[i])
                   /\ PassesDateTo(q, txs[i])
                   /\ PassesCategory(cats, q, txs[i])
    IN  FilterIdx([i \in 1..Len(txs) |-> Keep(i)], 1)

\* sum_transactions: the plain sum of the amounts.
RECURSIVE SumTransactions(_, _)
SumTransactions(txs, idx) ==
    IF idx = <<>> THEN 0
    ELSE txs[Head(idx)].amount + SumTransactions(txs, Tail(idx))

MonthIndex(date) == date.y * 12 + (date.m - 1)

\* The calendar months with a day in [from, to).
MonthsSpanned(from, to) ==
    IF DateLt(from, to)
    THEN MonthIndex(from)..(IF to.d = 1 THEN MonthIndex(to) - 1 ELSE MonthIndex(to))
    ELSE {}

\* What a budget allots to the month of index mi: the month's own amount,
\* else the flat monthly amount, else nothing.
MonthAllotment(budget, mi) ==
    LET own == budget.monthly[(mi % 12) + 1]
    IN  IF IsSome(own) THEN own ELSE budget.flat

RECURSIVE SumAllotments(_, _)
SumAllotments(budget, months) ==
    IF months = {} THEN 0
    ELSE LET mi == CHOOSE x \in months : TRUE
             a  == MonthAllotment(budget, mi)
         IN  (IF IsSome(a) THEN Unwrap(a) ELSE 0) + SumAllotments(budget, months \ {mi})

\* Category::budget_amount_over_interval: each spanned month counts in full;
\* none when no spanned month has an allotment.
BudgetAmountOverInterval(cat, from, to) ==
    LET months == MonthsSpanned(from, to)
    IN  IF \E mi \in months : IsSome(MonthAllotment(cat.budget, mi))
        THEN Some(SumAllotments(cat.budget, months))
        ELSE None

(***************************************************************************)
(* QueryBudget::exec                                                       *)
(***************************************************************************)
QueryBudgetNew(name, date_from, date_to) ==
    [name |-> name, date_from |-> date_from, date_to |-> date_to]

\* KeepCategory without the has_budget filter.
KeepCategoryAnyBudget(cats, q, id) ==
    IF IsSome(q.name) THEN IsMatch(Unwrap(q.name), FullName(cats, id)) ELSE TRUE

\* The two filters over db.categories().values(), visited in `order`.
KeepCategory(cats, q, id) ==
    /\ IF IsSome(q.name) THEN IsMatch(Unwrap(q.name), FullName(cats, id)) ELSE TRUE
    /\ HasBudget(cats[id])

SelectCategories(cats, q, order) ==
    LET Keep(i) == KeepCategory(cats, q, order[i])
        kept    == FilterIdx([i \in 1..Len(order) |-> Keep(i)], 1)
    IN  [i \in 1..Len(kept) |-> order[kept[i]]]

\* sort_by is stable: an element goes after those that are not greater.
InsertByFullName(cats, sorted, id) ==
    LET k == Cardinality({i \in 1..Len(sorted) :
                            StrLe(FullName(cats, sorted[i]), FullName(cats, id))})
    IN  SubSeq(sorted, 1, k) \o <<id>> \o SubSeq(sorted, k + 1, Len(sorted))

\* SortByFullName with the sort left out.
SortOmitted(cats, ids) == ids

RECURSIVE SortByFullName(_, _)
SortByFullName(cats, ids) ==
    IF ids = <<>> THEN <<>>
    ELSE InsertByFullName(cats,
                          SortByFullName(cats, SubSeq(ids, 1, Len(ids) - 1)),
                          ids[Len(ids)])

\* The transaction query built for one category: the window, and the
\* category's full name compiled as the pattern.
CategoryTransactionQuery(cats, q, id) ==
    QueryTransactionsNew(Some(q.date_from), Some(q.date_to), Some(FullName(cats, id)))

\* BudgetRow with the transaction query's date_from left out.
BudgetRowNoDateFrom(cats, txs, q, id) ==
    LET tq   == QueryTransactionsNew(None, Some(q.date_to), Some(FullName(cats, id)))
        filt == QueryTransactionsExec(cats, txs, tq)
    IN  [ name      |-> FullName(cats, id),
          spent     |-> SumTransactions(txs, filt),
          allotment |-> BudgetAmountOverInterval(cats[id], q.date_from, q.date_to) ]

\* The closure mapped over the sorted categories.
BudgetRow(cats, txs, q, id) ==
    LET filt == QueryTransactionsExec(cats, txs, CategoryTransactionQuery(cats, q, id))
    IN  [ name      |-> FullName(cats, id),
          spent     |-> SumTransactions(txs, filt),
          allotment |-> BudgetAmountOverInterval(cats[id], q.date_from, q.date_to) ]

----------------------------------------------------------------------------
(***************************************************************************)
(* Inputs                                                                  *)
(***************************************************************************)
\* Most categories of a store, and most transactions of a store queried by
\* main; the longest attribute list is MaxAttrs, above.
MaxCats == 2

MaxTx == 3

\* Most transactions of a store the budget query runs on.
MaxBudgetTx == 1

SeqsUpTo(S, n) == UNION {[1..k -> S] : k \in 0..n}

VisitOrders(S) ==
    {p \in [1..Cardinality(S) -> S] : \A i, j \in 1..Cardinality(S) : p[i] = p[j] => i = j}

Unparsable == <<"x">>

\* Day numbers, as the file writes them.
Day20191231 == <<"7", "3", "7", "7", "8", "9">>

Day20200229 == <<"7", "3", "7", "8", "4", "9">>

Day20200301 == <<"7", "3", "7", "8", "5", "0">>

Day20200311 == <<"7", "3", "7", "8", "6", "0">>

Day20200401 == <<"7", "3", "7", "8", "8", "1">>

Minus50 == <<"-", "5", "0">>

Minus30 == <<"-", "3", "0">>

\* The attributes try_from is run on: the test template's (account, amount,
\* date, payee, paymode, st), other values of them, and further names.
AttrPool ==
    { Attr("account", <<"1">>), Attr("account", Unparsable),
      Attr("amount", <<"1">>), Attr("amount", <<"-", "1">>),
      Attr("amount", <<"0">>), Attr("amount", Unparsable),
      Attr("date", Day20200311), Attr("date", Unparsable),
      Attr("payee", <<"1">>), Attr("payee", Unparsable),
      Attr("paymode", <<"0">>), Attr("paymode", <<"1", "1">>),
      Attr("category", <<"2">>), Attr("category", Unparsable),
      Attr("flags", <<"3">>), Attr("flags", Unparsable),
      Attr("tags", <<"a", ",", "b">>), Attr("tags", <<>>),
      Attr("status", <<"0">>),
      Attr("st", <<"0">>),
      Attr("kxfer", <<"1">>) }

AttrLists == SeqsUpTo(AttrPool, MaxAttrs)

\* The largest pay-mode code a record is given.
MaxCode == 60

\* A number as the file writes it: decimal digits, no sign, no padding.
RECURSIVE DecimalString(_)
DecimalString(n) ==
    IF n < 10 THEN <<DigitChars[n + 1]>>
    ELSE Append(DecimalString(n \div 10), DigitChars[(n % 10) + 1])

\* Values of a numeric attribute that are no unsigned number.
NotNumbers == {Unparsable, <<>>, <<"-", "1">>, <<"1", ".", "5">>}

\* The attribute list of the tests: account, amount, date, payee, paymode
\* and st.
Template ==
    << Attr("account", <<"1">>), Attr("amount", <<"1">>), Attr("date", Day20200311),
       Attr("payee", <<"1">>), Attr("paymode", <<"0">>), Attr("st", <<"0">>) >>

\* The attributes of v at the positions of S, in the order of v.
SubList(v, S) ==
    [n \in 1..Cardinality(S) |->
        v[CHOOSE i \in S : Cardinality({j \in S : j < i}) = n - 1]]

\* template_all_but(i), counted from 1.
TemplateAllBut(i) == SubList(Template, (1..Len(Template)) \ {i})

\* The template with any of its attributes left out, down to the empty
\* list.
TemplateSubLists == { SubList(Template, S) : S \in SUBSET (1..Len(Template)) }

\* Day numbers a record is given: runs of days from the year 0, and around
\* the turns of the years 100, 400, 1900, 2000 and 2020.
MaxDaySpan == 400

DayBases == {0, 36500, 146000, 693900, 730400, 737500}

DayNumbers == {b + k : b \in DayBases, k \in 0..MaxDaySpan}

\* Records of one date attribute.
DateLists == { <<Attr("date", DecimalString(d))>> : d \in DayNumbers }

\* Records of one pay-mode attribute.
PayModeLists ==
    { <<Attr("paymode", DecimalString(k))>> : k \in 0..MaxCode }
    \cup { <<Attr("paymode", v)>> : v \in NotNumbers }

\* A transaction of a loaded store: what try_from makes of its record.
StoreTx(day, amount, category) ==
    TransactionTryFrom(
        <<Attr("account", <<"1">>), Attr("date", day), Attr("amount", amount)>>
        \o (IF IsSome(category) THEN <<Attr("category", Unwrap(category))>> ELSE <<>>)).val

IdStr(id) == <<DigitChars[id + 1]>>

Auto == <<"A", "u", "t", "o">>

Bills == <<"B", "i", "l", "l", "s">>

Groceries == <<"G", "r", "o", "c", "e", "r", "i", "e", "s">>

\* Category maps with ids 1..k; a parent has a smaller id, so that every
\* parent chain ends in a root.
CategoryMaps ==
    UNION { { c \in [1..k -> { Category(n, p, b) :
                                 n \in {Auto, Bills},
                                 p \in {None} \cup {Some(i) : i \in 1..k},
                                 b \in {NoBudget, FlatBudget(200)} }] :
              \A i \in 1..k : IsSome(c[i].parent) => Unwrap(c[i].parent) < i }
            : k \in 0..MaxCats }

\* Most ids of the accounts and of the payees of a store.
MaxIds == 2

Checking == <<"C", "h", "e", "c", "k", "i", "n", "g">>

Grocer == <<"G", "r", "o", "c", "e", "r">>

\* Account maps and payee maps: any of the ids 1..MaxIds may be absent.
AccountMaps ==
    UNION { [ids -> {Checking}] : ids \in SUBSET (1..MaxIds) }

PayeeMaps ==
    UNION { [ids -> {Grocer}] : ids \in SUBSET (1..MaxIds) }

\* Category maps of categories without a budget.
NamedCategoryMaps == { c \in CategoryMaps : \A i \in DOMAIN c : c[i].budget = NoBudget }

\* Transactions whose names are resolved: any account, payee and category
\* id of the record format, the payee and the category possibly omitted.
NamedTxPool ==
    { TransactionTryFrom(
          <<Attr("account", IdStr(a))>>
          \o (IF IsSome(p) THEN <<Attr("payee", IdStr(Unwrap(p)))>> ELSE <<>>)
          \o (IF IsSome(c) THEN <<Attr("category", IdStr(Unwrap(c)))>> ELSE <<>>)).val :
        a \in 0..MaxIds,
        p \in {None} \cup {Some(i) : i \in 1..MaxIds},
        c \in {None} \cup {Some(i) : i \in 1..MaxCats} }

\* Transactions of the stores main queries: three dates, no category.
QueryTxPool ==
    { StoreTx(day, Minus50, None) : day \in {Day20191231, Day20200311, Day20200401} }

QueryDates == {Ymd(2019, 12, 31), Ymd(2020, 3, 11), Ymd(2020, 4, 1)}

\* Transactions of the stores the budget query runs on: dated 2020-03-11,
\* in any category or none.
BudgetTxPool ==
    { StoreTx(Day20200311, Minus50, cat) :
        cat \in {None} \cup {Some(IdStr(i)) : i \in 1..MaxCats} }

\* The ledgers of one root category with a flat monthly budget and two
\* transactions under it.
LedgerCategories ==
    { <<Category(Groceries, None, FlatBudget(b))>> : b \in {100, 200} }

LedgerTxPool ==
    { StoreTx(day, amount, Some(IdStr(1))) :
        day \in {Day20200229, Day20200301, Day20200311, Day20200401},
        amount \in {Minus50, Minus30} }

BudgetStores ==
    (CategoryMaps \X SeqsUpTo(BudgetTxPool, MaxBudgetTx))
    \cup (LedgerCategories \X [1..2 -> LedgerTxPool])

BudgetPatterns == {None, Some(Bills)}

\* [2020-03-01, 2020-04-01), a part of March, and March with a day of April.
BudgetWindows ==
    { <<Ymd(2020, 3, 1), Ymd(2020, 4, 1)>>,
      <<Ymd(2020, 3, 1), Ymd(2020, 3, 11)>>,
      <<Ymd(2020, 3, 1), Ymd(2020, 4, 2)>> }

----------------------------------------------------------------------------
(***************************************************************************)
(* QueryBudget: the default date window                                    *)
(***************************************************************************)
\* The day after a date.
NextDay(date) ==
    IF date.d < DaysInMonth(date.y, date.m) THEN Ymd(date.y, date.m, date.d + 1)
    ELSE IF date.m < 12 THEN Ymd(date.y, date.m + 1, 1)
    ELSE Ymd(date.y + 1, 1, 1)

\* NthOf(1, Grains(Day), Grains(Month)).future(t0): the first days of the
\* months, from the first one that does not end before t0; its n-th item.
RECURSIVE NthFirstOfMonth(_, _)
NthFirstOfMonth(t0, n) ==
    IF t0.d = 1
    THEN IF n = 1 THEN t0 ELSE NthFirstOfMonth(NextDay(t0), n - 1)
    ELSE NthFirstOfMonth(NextDay(t0), n)

\* TODAY_FIRST_OF_MONTH
TodayFirstOfMonth(day) == Ymd(day.y, day.m, 1)

\* FIRST_OF_NEXT_MONTH with the first item of the iterator taken.
FirstOfNextMonthNoSkip(day) == NthFirstOfMonth(TodayFirstOfMonth(day), 1)

\* FIRST_OF_NEXT_MONTH: the first item is skipped, the next one is taken.
FirstOfNextMonth(day) == NthFirstOfMonth(TodayFirstOfMonth(day), 2)

\* A number in decimal digits, with zeros in front up to the width w.
RECURSIVE ZeroPadded(_, _)
ZeroPadded(n, w) ==
    IF Len(DecimalString(n)) >= w THEN DecimalString(n)
    ELSE <<"0">> \o ZeroPadded(n, w - 1)

\* NaiveDate::format("%Y-%m-%d")
FormatDate(date) ==
    ZeroPadded(date.y, 4) \o <<"-">> \o ZeroPadded(date.m, 2) \o <<"-">> \o ZeroPadded(date.d, 2)

\* NaiveDate::from_str on a string of the form YYYY-MM-DD: the date, when it
\* is one of the calendar.
NaiveDateFromStr(s) ==
    IF /\ Len(s) = 10
       /\ s[5] = "-"
       /\ s[8] = "-"
       /\ AllDigits(SubSeq(s, 1, 4))
       /\ AllDigits(SubSeq(s, 6, 7))
       /\ AllDigits(SubSeq(s, 9, 10))
    THEN LET y == DigitsValue(SubSeq(s, 1, 4))
             m == DigitsValue(SubSeq(s, 6, 7))
             d == DigitsValue(SubSeq(s, 9, 10))
         IN  IF m \in 1..12 /\ d >= 1 /\ d <= DaysInMonth(y, m)
             THEN Some(Ymd(y, m, d))
             ELSE None
    ELSE None

\* The days the process is run on.
ClockYears == {2019, 2020}

Todays ==
    { date \in [y : ClockYears, m : 1..12, d : 1..31] :
        date.d <= DaysInMonth(date.y, date.m) }

----------------------------------------------------------------------------
(***************************************************************************)
(* Specifications                                                          *)
(***************************************************************************)
Idle ==
    /\ result = None
    /\ query = None
    /\ filt_transactions = <<>>
    /\ prev_query = None
    /\ prev_filt = <<>>
    /\ budget_query = None
    /\ filt_categories = <<>>
    /\ budget_spent = <<>>
    /\ names = None

\* A store with no account and no payee, and no day read from the clock.
NoNamesNoClock ==
    /\ accounts = <<>>
    /\ payees = <<>>
    /\ today = None

\* Transaction::try_from on the attribute list of one record.
TryFrom ==
    /\ result = None
    /\ result' = Some(TransactionTryFrom(input))
    /\ UNCHANGED <<accounts, payees, names, today, input, categories, transactions, query, filt_transactions,
                   prev_query, prev_filt, budget_query, filt_categories,
                   budget_spent>>

\* main, with the subcommand `query transactions`.
MainQuery ==
    \E df \in {None} \cup {Some(d) : d \in QueryDates},
       dt \in {None} \cup {Some(d) : d \in QueryDates} :
        LET q == QueryTransactionsNew(df, dt, None)
        IN  /\ query' = Some(q)
            /\ filt_transactions' = MainFilter(transactions, q)
            /\ prev_query' = query
            /\ prev_filt' = filt_transactions
            /\ UNCHANGED <<accounts, payees, names, today, input, result, categories, transactions,
                           budget_query, filt_categories, budget_spent>>

\* QueryBudget::exec; the order in which the category map is visited is
\* the hash map's.
BudgetExec ==
    /\ budget_query = None
    /\ \E name \in BudgetPatterns, w \in BudgetWindows,
          order \in VisitOrders(DOMAIN categories) :
           LET q      == QueryBudgetNew(name, w[1], w[2])
               sorted == SortByFullName(categories, SelectCategories(categories, q, order))
           IN  /\ budget_query' = Some(q)
               /\ filt_categories' = sorted
               /\ budget_spent' = [i \in 1..Len(sorted) |->
                                      BudgetRow(categories, transactions, q, sorted[i])]
               /\ UNCHANGED <<accounts, payees, names, today, input, result, categories, transactions, query,
                              filt_transactions, prev_query, prev_filt>>

\* Transaction::account_name, payee_name and category_name on the first
\* transaction of the store.
ResolveNames ==
    /\ names = None
    /\ transactions # <<>>
    /\ LET db == [accounts |-> accounts, payees |-> payees]
           t  == transactions[1]
       IN  names' = Some([ account  |-> AccountName(db, t),
                           payee    |-> PayeeName(db, t),
                           category |-> CategoryName(categories, t) ])
    /\ UNCHANGED <<input, result, accounts, payees, categories, transactions,
                   query, filt_transactions, prev_query, prev_filt,
                   budget_query, filt_categories, budget_spent, today>>

InitNames ==
    /\ Idle
    /\ input = <<>>
    /\ today = None
    /\ accounts \in AccountMaps
    /\ payees \in PayeeMaps
    /\ categories \in NamedCategoryMaps
    /\ transactions \in {<<t>> : t \in NamedTxPool}

\* QueryBudget made from a command line without --date-from and
\* --date-to: each default is the string of the lazy static, parsed.
DefaultBudgetQuery ==
    /\ budget_query = None
    /\ today # None
    /\ \E name \in BudgetPatterns :
          LET from_str == FormatDate(TodayFirstOfMonth(Unwrap(today)))
              to_str   == FormatDate(FirstOfNextMonth(Unwrap(today)))
          IN  /\ IsSome(NaiveDateFromStr(from_str))
              /\ IsSome(NaiveDateFromStr(to_str))
              /\ budget_query' = Some(QueryBudgetNew(name,
                                          Unwrap(NaiveDateFromStr(from_str)),
                                          Unwrap(NaiveDateFromStr(to_str))))
    /\ UNCHANGED <<input, result, accounts, payees, categories, transactions,
                   query, filt_transactions, prev_query, prev_filt,
                   filt_categories, budget_spent, names, today>>

InitClock ==
    /\ Idle
    /\ input = <<>>
    /\ accounts = <<>>
    /\ payees = <<>>
    /\ categories = <<>>
    /\ transactions = <<>>
    /\ today \in {Some(d) : d \in Todays}

InitTx ==
    /\ Idle
    /\ NoNamesNoClock
    /\ input \in AttrLists
    /\ categories = <<>>
    /\ transactions = <<>>

InitQuery ==
    /\ Idle
    /\ NoNamesNoClock
    /\ input = <<>>
    /\ categories = <<>>
    /\ transactions \in SeqsUpTo(QueryTxPool, MaxTx)

InitBudget ==
    /\ Idle
    /\ NoNamesNoClock
    /\ input = <<>>
    /\ \E s \in BudgetStores : categories = s[1] /\ transactions = s[2]

InitPayMode ==
    /\ Idle
    /\ NoNamesNoClock
    /\ input \in PayModeLists
    /\ categories = <<>>
    /\ transactions = <<>>

InitDate ==
    /\ Idle
    /\ NoNamesNoClock
    /\ input \in DateLists
    /\ categories = <<>>
    /\ transactions = <<>>

InitTemplate ==
    /\ Idle
    /\ NoNamesNoClock
    /\ input \in TemplateSubLists
    /\ categories = <<>>
    /\ transactions = <<>>

\* The parser.
Spec == InitTx /\ [][TryFrom]_vars

\* The parser on the tests' template with attributes left out.
SpecTemplate == InitTemplate /\ [][TryFrom]_vars

\* The budget query's default window on the day the process runs.
SpecWindow == InitClock /\ [][DefaultBudgetQuery]_vars

\* Name resolution on a loaded store.
SpecNames == InitNames /\ [][ResolveNames]_vars

\* The parser on records of one date attribute.
SpecDate == InitDate /\ [][TryFrom]_vars

\* The parser on records of one pay-mode attribute.
SpecPayMode == InitPayMode /\ [][TryFrom]_vars

\* main's transaction query on a loaded store.
SpecQuery == InitQuery /\ [][MainQuery]_vars

\* The budget query on a loaded store.
SpecBudget == InitBudget /\ [][BudgetExec]_vars

----------------------------------------------------------------------------
(***************************************************************************)
(* Properties                                                              *)
(***************************************************************************)
Range(s) == {s[i] : i \in 1..Len(s)}

\* A date as one number, ordered as the calendar is.
DateNum(date) == date.y * 10000 + date.m * 100 + date.d

InWindow(t, from, to) ==
    DateNum(from) <= DateNum(t.date) /\ DateNum(t.date) < DateNum(to)

RECURSIVE SumAmounts(_, _)
SumAmounts(txs, S) ==
    IF S = {} THEN 0
    ELSE LET i == CHOOSE x \in S : TRUE
         IN  txs[i].amount + SumAmounts(txs, S \ {i})

\* a is a prefix of b, or is smaller at the first place where they differ.
LexLe(a, b) ==
    \E k \in 0..Len(a) :
        /\ k <= Len(b)
        /\ \A i \in 1..k : a[i] = b[i]
        /\ \/ k = Len(a)
           \/ k < Len(b) /\ Code(a[k + 1]) < Code(b[k + 1])

\* The transactions of the window whose category has exactly this full name.
ExactCategoryTx(name, q) ==
    { i \in 1..Len(transactions) :
        /\ InWindow(transactions[i], q.date_from, q.date_to)
        /\ CategoryName(categories, transactions[i]) = Some(name) }

\* C1: the spent sum of every row of QueryBudget::exec is the sum of the
\* amounts of exactly the transactions dated in [date_from, date_to) whose
\* category full name equals the row's; no other category contributes.
C1_SpentIsExactCategorySum ==
    IsSome(budget_query) =>
        \A i \in 1..Len(budget_spent) :
            budget_spent[i].spent =
                SumAmounts(transactions,
                           ExactCategoryTx(budget_spent[i].name, Unwrap(budget_query)))

\* C2: the rows of QueryBudget::exec are in ascending lexicographic order of
\* the category full name: each row's name is at most the next row's.
C2_RowsSortedByFullName ==
    IsSome(budget_query) =>
        \A i \in 1..(Len(budget_spent) - 1) :
            LexLe(budget_spent[i].name, budget_spent[i + 1].name)

\* Two rows were emitted in the opposite order of their categories' ids.
C2_Witness ==
    /\ IsSome(budget_query)
    /\ Len(budget_spent) = 2
    /\ filt_categories[1] > filt_categories[2]
    /\ budget_spent[1].name # budget_spent[2].name

\* The categories a budget query selects: budgeted, and matching the name
\* pattern when one is supplied.
BudgetedMatching(q) ==
    { id \in DOMAIN categories :
        /\ \/ categories[id].budget.flat # None
           \/ \E m \in 1..12 : categories[id].budget.monthly[m] # None
        /\ q.name = None \/ IsMatch(Unwrap(q.name), FullName(categories, id)) }

\* C3: QueryBudget::exec emits exactly one row for each category that has a
\* budget and matches the name pattern (every budgeted category when there
\* is no pattern), and no row for any other category.
C3_OneRowPerBudgetedMatchingCategory ==
    IsSome(budget_query) =>
        /\ Len(budget_spent) = Cardinality(BudgetedMatching(Unwrap(budget_query)))
        /\ Len(filt_categories) = Len(budget_spent)
        /\ Range(filt_categories) = BudgetedMatching(Unwrap(budget_query))
        /\ \A i \in 1..Len(budget_spent) :
               budget_spent[i].name = FullName(categories, filt_categories[i])

\* A query with a pattern over two budgeted categories gave one row: the
\* category that does not match gave none.
C3_Witness ==
    /\ IsSome(budget_query)
    /\ IsSome(Unwrap(budget_query).name)
    /\ Len(categories) = 2
    /\ \A id \in 1..2 : categories[id].budget.flat # None
    /\ Len(budget_spent) = 1

\* The window is one calendar month: from the first of a month to the first
\* of the next.
OneCalendarMonth(q) ==
    /\ q.date_from.d = 1
    /\ q.date_to.d = 1
    /\ q.date_to.y * 12 + q.date_to.m = q.date_from.y * 12 + q.date_from.m + 1

\* The transactions the row's query matched: in the window, with a category
\* name the row's name matches as a pattern.
MatchedTx(name, q) ==
    { i \in 1..Len(transactions) :
        /\ InWindow(transactions[i], q.date_from, q.date_to)
        /\ LET cn == CategoryName(categories, transactions[i])
           IN  IsSome(cn) /\ IsMatch(name, Unwrap(cn)) }

\* The ledger of one root category Groceries with 200 a month and two
\* transactions of March 2020 under it, of -50 and -30.
GroceriesLedger ==
    /\ categories = <<Category(Groceries, None, FlatBudget(200))>>
    /\ Len(transactions) = 2
    /\ transactions[1].amount = 0 - 50
    /\ transactions[2].amount = 0 - 30
    /\ \A i \in 1..2 :
           /\ transactions[i].category = Some(1)
           /\ transactions[i].date.y = 2020
           /\ transactions[i].date.m = 3

\* C4: on the Groceries ledger the budget query over [2020-03-01, 2020-04-01),
\* with no name pattern, returns the single row (Groceries, -80, Some(200));
\* and for a window of exactly one calendar month the allotment of a category
\* with a flat budget is its monthly amount and the spent value is the sum of
\* the matched amounts.
C4_GroceriesRowAndOneMonthWindow ==
    IsSome(budget_query) =>
        LET q == Unwrap(budget_query)
        IN  /\ ( /\ GroceriesLedger
                 /\ q.name = None
                 /\ q.date_from = Ymd(2020, 3, 1)
                 /\ q.date_to = Ymd(2020, 4, 1) )
                => budget_spent = << [ name      |-> Groceries,
                                       spent     |-> 0 - 80,
                                       allotment |-> Some(200) ] >>
            /\ OneCalendarMonth(q) =>
                 \A i \in 1..Len(budget_spent) :
                     LET cat == categories[filt_categories[i]]
                     IN  /\ ( /\ cat.budget.flat # None
                              /\ \A m \in 1..12 : cat.budget.monthly[m] = None )
                             => budget_spent[i].allotment = cat.budget.flat
                         /\ budget_spent[i].spent =
                                SumAmounts(transactions, MatchedTx(budget_spent[i].name, q))

\* The Groceries ledger, queried over March 2020, gave its row.
C4_Witness ==
    /\ IsSome(budget_query)
    /\ GroceriesLedger
    /\ Unwrap(budget_query).name = None
    /\ Unwrap(budget_query).date_from = Ymd(2020, 3, 1)
    /\ Unwrap(budget_query).date_to = Ymd(2020, 4, 1)
    /\ Len(budget_spent) = 1
    /\ budget_spent[1].spent = 0 - 80

\* C5: main keeps a transaction dated d iff date_from <= d, when supplied,
\* and d < date_to, when supplied: the window is half-open, an absent bound
\* constrains nothing, and with date_from >= date_to nothing is kept.
C5_HalfOpenDateWindow ==
    IsSome(query) =>
        LET q == Unwrap(query)
        IN  /\ \A i \in 1..Len(transactions) :
                   i \in Range(filt_transactions)
                   <=> /\ q.date_from = None
                          \/ DateNum(Unwrap(q.date_from)) <= DateNum(transactions[i].date)
                       /\ q.date_to = None
                          \/ DateNum(transactions[i].date) < DateNum(Unwrap(q.date_to))
            /\ ( /\ q.date_from # None
                 /\ q.date_to # None
                 /\ DateNum(Unwrap(q.date_from)) >= DateNum(Unwrap(q.date_to)) )
                => filt_transactions = <<>>

\* Both bounds were supplied; a transaction dated date_from was kept and one
\* dated date_to was dropped.
C5_Witness ==
    /\ IsSome(query)
    /\ IsSome(Unwrap(query).date_from)
    /\ IsSome(Unwrap(query).date_to)
    /\ \E i \in Range(filt_transactions) :
           transactions[i].date = Unwrap(Unwrap(query).date_from)
    /\ \E j \in 1..Len(transactions) :
           /\ transactions[j].date = Unwrap(Unwrap(query).date_to)
           /\ j \notin Range(filt_transactions)

\* Query f2 supplies every filter f1 supplies, with the same parameter.
SuppliesAllOf(f1, f2) ==
    /\ IsSome(f1.date_from) => f2.date_from = f1.date_from
    /\ IsSome(f1.date_to) => f2.date_to = f1.date_to
    /\ IsSome(f1.category) => f2.category = f1.category

\* C6: when the last query supplies every filter of the query before it (on
\* the same store), each transaction it returns was returned by that query
\* too; a query with no filter returns every transaction.
C6_FilterConjunctionMonotone ==
    /\ ( /\ IsSome(prev_query)
         /\ IsSome(query)
         /\ SuppliesAllOf(Unwrap(prev_query), Unwrap(query)) )
        => Range(filt_transactions) \subseteq Range(prev_filt)
    /\ ( /\ IsSome(query)
         /\ Unwrap(query).date_from = None
         /\ Unwrap(query).date_to = None
         /\ Unwrap(query).category = None )
        => Range(filt_transactions) = 1..Len(transactions)

\* A query with one more filter than the one before it returned fewer
\* transactions.
C6_Witness ==
    /\ IsSome(prev_query)
    /\ IsSome(query)
    /\ SuppliesAllOf(Unwrap(prev_query), Unwrap(query))
    /\ IsSome(Unwrap(prev_query).date_from)
    /\ ~IsSome(Unwrap(prev_query).date_to)
    /\ IsSome(Unwrap(query).date_to)
    /\ Range(filt_transactions) # {}
    /\ Range(filt_transactions) # Range(prev_filt)

\* C7: the result of main's query is a subsequence of the store's
\* transactions: its entries are transactions of the store, in the store's
\* order, none of them twice.
C7_ResultIsSubsequence ==
    IsSome(query) =>
        /\ \A i \in 1..Len(filt_transactions) :
               filt_transactions[i] \in 1..Len(transactions)
        /\ \A i \in 1..(Len(filt_transactions) - 1) :
               filt_transactions[i] < filt_transactions[i + 1]

\* A query kept two transactions or more and dropped one.
C7_Witness ==
    /\ IsSome(query)
    /\ Len(filt_transactions) >= 2
    /\ Len(filt_transactions) < Len(transactions)

\* The record carries the file's mark of an inter-account transfer.
IsTransferFlagged(v) == \E i \in 1..Len(v) : v[i].name = "kxfer"

C9_TransferFlaggedIsTransfer ==
    (IsSome(result) /\ Unwrap(result).ok /\ IsTransferFlagged(input)) =>
        Unwrap(result).val.transaction_type = "Transfer"

HasAttr(v, name) == \E i \in 1..Len(v) : v[i].name = name

\* C10: an attribute list with no account fails with MissingAccount, one
\* with no amount with MissingAmount, one with no date with MissingDate (the
\* error of a field that is missing); no transaction is produced.
C10_MissingRequiredFieldFails ==
    LET missing == { f \in {"account", "amount", "date"} : ~HasAttr(input, f) }
        error   == [f \in {"account", "amount", "date"} |->
                       CASE f = "account" -> "MissingAccount"
                         [] f = "amount"  -> "MissingAmount"
                         [] f = "date"    -> "MissingDate"]
    IN  (IsSome(result) /\ missing # {}) =>
            /\ ~Unwrap(result).ok
            /\ \E f \in missing : Unwrap(result).err = error[f]

\* The list without its i-th attribute.
RemoveAt(v, i) == SubSeq(v, 1, i - 1) \o SubSeq(v, i + 1, Len(v))

\* The list with the attribute a put in as its i-th.
InsertAt(v, i, a) == SubSeq(v, 1, i - 1) \o <<a>> \o SubSeq(v, i, Len(v))

OnlyOfItsName(v, i) == \A j \in 1..Len(v) : v[j].name = v[i].name => j = i

MissingErrorOf(name) ==
    CASE name = "account" -> "MissingAccount"
      [] name = "amount"  -> "MissingAmount"
      [] name = "date"    -> "MissingDate"
      [] name = "payee"   -> "MissingPayee"

\* C11: an attribute that is present with a value that does not parse ends
\* the construction with the error of the missing field when the field is
\* account, amount, date or payee (and the attributes before it were
\* accepted); when the field is category or flags the result is the one of
\* the list without that attribute, and a transaction built has none there.
C11_UnparsableRequiredFailsOptionalIsNone ==
    IsSome(result) =>
        \A i \in 1..Len(input) :
            input[i].value = Unparsable =>
                /\ ( /\ input[i].name \in {"account", "amount", "date", "payee"}
                     /\ TransactionTryFrom(SubSeq(input, 1, i - 1)).ok )
                       => Unwrap(result) = Err(MissingErrorOf(input[i].name))
                /\ (input[i].name \in {"category", "flags"} /\ OnlyOfItsName(input, i))
                       => /\ Unwrap(result) = TransactionTryFrom(RemoveAt(input, i))
                          /\ Unwrap(result).ok =>
                                IF input[i].name = "category"
                                THEN Unwrap(result).val.category = None
                                ELSE Unwrap(result).val.flags = None

\* A category and flags that do not parse were passed over, and the payee
\* after them that does not parse ended the construction.
C11_Witness ==
    /\ input = <<Attr("category", Unparsable), Attr("flags", Unparsable),
                 Attr("payee", Unparsable)>>
    /\ result = Some(Err("MissingPayee"))

\* The number a string of decimal digits writes, by the place of each
\* digit; -1 for any other string.
RECURSIVE PlaceSum(_, _)
PlaceSum(v, i) ==
    IF i > Len(v) THEN 0
    ELSE (CHOOSE k \in 0..9 : DigitChars[k + 1] = v[i]) * 10 ^ (Len(v) - i)
         + PlaceSum(v, i + 1)

NumberWritten(v) ==
    IF v # <<>> /\ \A i \in 1..Len(v) : v[i] \in {DigitChars[k] : k \in 1..10}
    THEN PlaceSum(v, 1)
    ELSE -1

\* C12 (as the code has it): a pay-mode value that is a number above 10
\* ends the construction with InvalidPayMode, a value that is no number
\* ends it with MissingPayMode, and every code in 0..10 is accepted and
\* becomes the transaction's pay mode.
C12_PayModeRangeAndParse ==
    (IsSome(result) /\ Len(input) = 1 /\ input[1].name = "paymode") =>
        LET n == NumberWritten(input[1].value)
        IN  /\ n = -1 => Unwrap(result) = Err("MissingPayMode")
            /\ n > 10 => Unwrap(result) = Err("InvalidPayMode")
            /\ n \in 0..10 => /\ Unwrap(result).ok
                              /\ Unwrap(result).val.pay_mode = n

\* The code 10 was accepted.
C12_Witness ==
    /\ input = <<Attr("paymode", <<"1", "0">>)>>
    /\ IsSome(result)
    /\ Unwrap(result).ok
    /\ Unwrap(result).val.pay_mode = 10

\* C12 (as stated): a pay-mode value that is out of 0..10 or that is no
\* number ends the construction with InvalidPayMode; every code in 0..10 is
\* accepted.
C12_InvalidPayModeForUnparsable ==
    (IsSome(result) /\ Len(input) = 1 /\ input[1].name = "paymode") =>
        LET n == NumberWritten(input[1].value)
        IN  IF n \in 0..10 THEN Unwrap(result).ok
            ELSE Unwrap(result) = Err("InvalidPayMode")

\* The positions of the commas of a string, and the piece before the k-th
\* comma (the piece after the last one for k past them).
CommaPositions(s) == {i \in 1..Len(s) : s[i] = ","}

PieceOf(s, k) ==
    LET before(i) == Cardinality({j \in CommaPositions(s) : j < i})
        chars     == {i \in 1..Len(s) : s[i] # "," /\ before(i) = k - 1}
    IN  [n \in 1..Cardinality(chars) |->
            s[CHOOSE i \in chars : Cardinality({j \in chars : j < i}) = n - 1]]

\* C13: the tags of a record are the pieces of its 'tags' value between
\* the commas, in their order in the string; a 'tags' value that is the
\* empty string leaves the transaction without tags (None).
C13_TagsSplitInOrderEmptyIsNone ==
    (IsSome(result) /\ Unwrap(result).ok) =>
        \A i \in 1..Len(input) :
            (input[i].name = "tags" /\ OnlyOfItsName(input, i)) =>
                LET value == input[i].value
                    tags  == Unwrap(result).val.tags
                IN  IF value = <<>> THEN tags = None
                    ELSE /\ IsSome(tags)
                         /\ Len(Unwrap(tags)) = Cardinality(CommaPositions(value)) + 1
                         /\ \A k \in 1..Len(Unwrap(tags)) :
                                Unwrap(tags)[k] = PieceOf(value, k)

\* Attributes of the file's records that try_from has no field for.
UnrecognizedAttrs == {Attr(n, <<"0">>) : n \in {"st", "scat", "samt", "smem"}}

\* C14: an attribute with a name try_from does not recognise changes
\* nothing: the list with such an attribute put in at any position, and the
\* list with one taken out, give the result of the list itself, be it a
\* transaction or an error.
C14_UnrecognizedAttributeIgnored ==
    IsSome(result) =>
        /\ \A a \in UnrecognizedAttrs, i \in 1..(Len(input) + 1) :
               TransactionTryFrom(InsertAt(input, i, a)) = Unwrap(result)
        /\ \A i \in 1..Len(input) :
               input[i] \in UnrecognizedAttrs =>
                   TransactionTryFrom(RemoveAt(input, i)) = Unwrap(result)

\* A list with 'st' between the account and the amount gave the
\* transaction of the account and the amount alone.
C14_Witness ==
    /\ input = <<Attr("account", <<"1">>), Attr("st", <<"0">>), Attr("amount", <<"1">>)>>
    /\ IsSome(result)
    /\ Unwrap(result) = TransactionTryFrom(<<Attr("account", <<"1">>), Attr("amount", <<"1">>)>>)
    /\ Unwrap(result).ok
    /\ Unwrap(result).val.account = 1
    /\ Unwrap(result).val.amount = 1

\* The days from 0000-01-01 to a date, counted year by year and month by
\* month: the year 0 is a leap year.
LeapYearsBefore(y) ==
    IF y = 0 THEN 0
    ELSE 1 + (y - 1) \div 4 - (y - 1) \div 100 + (y - 1) \div 400

RECURSIVE DaysBeforeMonth(_, _)
DaysBeforeMonth(y, m) ==
    IF m = 1 THEN 0 ELSE DaysBeforeMonth(y, m - 1) + DaysInMonth(y, m - 1)

DaysFromCivil(date) ==
    365 * date.y + LeapYearsBefore(date.y) + DaysBeforeMonth(date.y, date.m) + date.d - 1

IsCalendarDate(date) ==
    /\ date.y >= 0
    /\ date.m \in 1..12
    /\ date.d \in 1..DaysInMonth(date.y, date.m)

\* C15: a 'date' attribute holding the number d becomes the date of the
\* proleptic Gregorian calendar d days after 0000-01-01: a day of the
\* calendar from which d is counted back, 2020-03-11 for 737860, and a
\* later day for d + 1, so that no two numbers give one date.
C15_DateIsDaysAfterYearZero ==
    (IsSome(result) /\ Len(input) = 1 /\ input[1].name = "date") =>
        LET d == NumberWritten(input[1].value)
        IN  d >= 0 =>
              /\ Unwrap(result).ok
              /\ IsCalendarDate(Unwrap(result).val.date)
              /\ DaysFromCivil(Unwrap(result).val.date) = d
              /\ d = 737860 => Unwrap(result).val.date = Ymd(2020, 3, 11)
              /\ d = 0 => Unwrap(result).val.date = Ymd(0, 1, 1)
              /\ DateLt(Unwrap(result).val.date, JulianDateFromU32(d + 1))

\* The template's date, 737860, became 2020-03-11.
C15_Witness ==
    /\ input = <<Attr("date", Day20200311)>>
    /\ IsSome(result)
    /\ Unwrap(result).ok
    /\ Unwrap(result).val.date = Ymd(2020, 3, 11)
    /\ DaysFromCivil(Unwrap(result).val.date) = 737860

\* The categories above a category: those reached from it by parent links.
AncestorsOf(cats, id) ==
    LET Up(S) == S \cup {cats[i].parent[1] : i \in {j \in S : cats[j].parent # None}}
        Climb[n \in 0..Len(cats)] == IF n = 0 THEN {id} ELSE Up(Climb[n - 1])
    IN  Climb[Len(cats)] \ {id}

\* C16: the names of a transaction's account, payee and category are
\* looked up in the store and are none, not a failure, when the store has
\* no entity of the id or the transaction has no payee or no category; when
\* the entity is there the name is the entity's, for a category its full
\* name.
C16_NameResolutionIsTotal ==
    IsSome(names) =>
        LET t == transactions[1]
            n == Unwrap(names)
        IN  /\ n.account = IF t.account \in DOMAIN accounts
                           THEN Some(accounts[t.account]) ELSE None
            /\ n.payee = IF t.payee # None /\ t.payee[1] \in DOMAIN payees
                         THEN Some(payees[t.payee[1]]) ELSE None
            /\ n.category = IF t.category # None /\ t.category[1] \in DOMAIN categories
                            THEN Some(FullName(categories, t.category[1])) ELSE None

\* A transaction of an account the store has, of a payee it has not and of
\* a category below another one.
C16_Witness ==
    /\ IsSome(names)
    /\ transactions[1].account = 1
    /\ transactions[1].payee = Some(2)
    /\ transactions[1].category = Some(2)
    /\ DOMAIN payees = {1}
    /\ Unwrap(names).account = Some(Checking)
    /\ Unwrap(names).payee = None
    /\ Unwrap(names).category = Some(Bills \o Separator \o Auto)

C18_DefaultWindowIsCurrentMonth ==
    (IsSome(budget_query) /\ IsSome(today)) =>
        LET q == Unwrap(budget_query)
            t == Unwrap(today)
        IN  /\ q.date_from = [y |-> t.y, m |-> t.m, d |-> 1]
            /\ q.date_to = IF t.m = 12 THEN [y |-> t.y + 1, m |-> 1, d |-> 1]
                           ELSE [y |-> t.y, m |-> t.m + 1, d |-> 1]
            /\ DateLt(q.date_from, q.date_to)

\* On 2020-12-15 the window is [2020-12-01, 2021-01-01).
C18_Witness ==
    /\ today = Some(Ymd(2020, 12, 15))
    /\ IsSome(budget_query)
    /\ Unwrap(budget_query).date_from = Ymd(2020, 12, 1)
    /\ Unwrap(budget_query).date_to = Ymd(2021, 1, 1)

\* C19: the template of the tests with any one attribute left out, and the
\* empty list, do not give the error of the missing field: try_from
\* succeeds, and a field left out has its default (account 0, amount 0 and
\* type Expense, date 2000-01-01, pay mode None, no payee; the status is
\* None), the fields given have the template's values.
C19_OmittedFieldsTakeDefaults ==
    (IsSome(result) /\ (input = <<>> \/ \E i \in 1..Len(Template) : input = TemplateAllBut(i))) =>
        /\ Unwrap(result).ok
        /\ LET tr == Unwrap(result).val
           IN  /\ tr.account = IF HasAttr(input, "account") THEN 1 ELSE 0
               /\ tr.amount = IF HasAttr(input, "amount") THEN 1 ELSE 0
               /\ tr.transaction_type = IF HasAttr(input, "amount") THEN "Income" ELSE "Expense"
               /\ tr.date = IF HasAttr(input, "date")
                            THEN [y |-> 2020, m |-> 3, d |-> 11]
                            ELSE [y |-> 2000, m |-> 1, d |-> 1]
               /\ tr.payee = IF HasAttr(input, "payee") THEN <<1>> ELSE <<>>
               /\ tr.pay_mode = 0
               /\ tr.status = 0

\* The template without its account gave a transaction of the account 0.
C19_Witness ==
    /\ input = TemplateAllBut(1)
    /\ Len(input) = 5
    /\ IsSome(result)
    /\ Unwrap(result).ok
    /\ Unwrap(result).val.account = 0
    /\ Unwrap(result).val.amount = 1

DistinctNames(v) == \A i, j \in 1..Len(v) : v[i].name = v[j].name => i = j

\* The orders of the positions of a list of n attributes.
PositionOrders == [n \in 0..MaxAttrs |-> VisitOrders(1..n)]

\* The lists with the attributes of v in another order.
Reorderings(v) == { [i \in 1..Len(v) |-> v[p[i]]] : p \in PositionOrders[Len(v)] }

\* An attribute try_from does not accept, whatever stands before it.
IsInvalidAttr(a) == ~TransactionTryFrom(<<a>>).ok

\* C20 (as the code has it): for a list of attributes of pairwise distinct
\* names, every reordering succeeds when the list does, with the same
\* transaction, and fails when the list does; the error is the one of the
\* first attribute, in the order of the list handed in, that is not
\* accepted, so it is the same for all orders when one attribute only is
\* invalid.
C20_OrderDecidesOnlyTheError ==
    (IsSome(result) /\ DistinctNames(input)) =>
        LET invalid == {input[i] : i \in {k \in 1..Len(input) : IsInvalidAttr(input[k])}}
        IN  /\ Unwrap(result).ok <=> invalid = {}
            /\ \A v \in Reorderings(input) :
                   LET r == TransactionTryFrom(v)
                   IN  IF invalid = {} THEN r = Unwrap(result)
                       ELSE LET first == CHOOSE i \in 1..Len(v) :
                                             /\ v[i] \in invalid
                                             /\ \A k \in 1..(i - 1) : v[k] \notin invalid
                            IN  /\ ~r.ok
                                /\ r = TransactionTryFrom(<<v[first]>>)
                                /\ Cardinality(invalid) = 1 => r = Unwrap(result)

\* The amount, the account and the date in an order other than the
\* template's gave a transaction, the one of every order.
C20_Witness ==
    /\ input = <<Attr("amount", <<"1">>), Attr("date", Day20200311), Attr("account", <<"1">>)>>
    /\ IsSome(result)
    /\ Unwrap(result).ok
    /\ Unwrap(result) = TransactionTryFrom(<<Attr("account", <<"1">>), Attr("amount", <<"1">>),
                                             Attr("date", Day20200311)>>)

\* C20 (as stated): for a list of attributes of pairwise distinct names
\* every reordering gives the same result, the same transaction or the same
\* error, also when more than one attribute is invalid.
C20_EveryOrderSameResult ==
    (IsSome(result) /\ DistinctNames(input)) =>
        \A v \in Reorderings(input) : TransactionTryFrom(v) = Unwrap(result)

====
